---------------------------- MODULE Spec2Model ----------------------------
(***************************************************************************)
(* Shortcuts pak: the shortcut naming codec, the shortcut writer and the   *)
(* scanner, over a model of the Roms directory tree.                       *)
(*                                                                         *)
(* A string is a sequence of tokens.  A token is one code point where the  *)
(* program looks at single code points ("(", ")", " ", "0", the markers)   *)
(* and a whole word where it never looks inside ("Foo", "MD", ".m3u").     *)
(***************************************************************************)
EXTENDS Integers, Sequences, FiniteSets, TLC

VARIABLES fs, settingsFile, settings, isBrick, made, last, ui, nops, codec, calc

vars == <<fs, settingsFile, settings, isBrick, made, last, ui, nops, codec, calc>>

\* ------------------------------------------------------------ bounds

\* Longest display name drawn for the codec.
MaxLen == 4

\* Number of operations in one run of the writer.
MaxOps == 2

\* ------------------------------------------------------- constants

BOM == "U+FEFF"
ZWSP == "U+200B"
STAR == "U+2605"

shortcutPrefix == <<BOM>>

legacyShortcutPrefix == <<STAR, " ">>

bridgeEmuTag == <<"SHORTCUT">>

ShortcutPositionBottom == "Bottom"
ShortcutPositionTop == "Top"
ShortcutPositionAlpha == "Alpha"

Positions == {ShortcutPositionBottom, ShortcutPositionTop, ShortcutPositionAlpha}

topPrefix == <<"0", ")", " ">>

shortcutMarkerFile == <<".shortcut">>

\* --------------------------------------------------- package strings

\* strings.HasPrefix
HasPrefix(s, p) ==
    /\ Len(p) <= Len(s)
    /\ SubSeq(s, 1, Len(p)) = p

\* strings.HasSuffix
HasSuffix(s, p) ==
    /\ Len(p) <= Len(s)
    /\ SubSeq(s, Len(s) - Len(p) + 1, Len(s)) = p

\* strings.TrimPrefix
TrimPrefix(s, p) ==
    IF HasPrefix(s, p) THEN SubSeq(s, Len(p) + 1, Len(s)) ELSE s

\* strings.TrimSuffix
TrimSuffix(s, p) ==
    IF HasSuffix(s, p) THEN SubSeq(s, 1, Len(s) - Len(p)) ELSE s

\* strings.LastIndex for a one-token needle, 0-based, -1 when absent
LastIndex(s, c) ==
    LET hits == {i \in 1..Len(s) : s[i] = c}
    IN  IF hits = {} THEN -1
        ELSE (CHOOSE i \in hits : \A j \in hits : j <= i) - 1

\* strings.TrimSpace
TrimSpace(s) ==
    LET solid == {i \in 1..Len(s) : s[i] # " "}
    IN  IF solid = {} THEN <<>>
        ELSE SubSeq(s,
                    CHOOSE i \in solid : \A j \in solid : i <= j,
                    CHOOSE i \in solid : \A j \in solid : j <= i)

\* ------------------------------------------------------ naming codec

\* The tag of a name: the text between its last "(" and its last ")".
extractTag(name) ==
    LET idx == LastIndex(name, "(")
        end == LastIndex(name, ")")
    IN  IF idx < 0 THEN <<>>
        ELSE IF end <= idx THEN <<>>
        ELSE TrimSpace(SubSeq(name, idx + 2, end))

\* The name without its trailing (TAG).
extractDisplayName(name) ==
    LET idx == LastIndex(name, "(")
    IN  IF idx < 0 THEN name
        ELSE TrimSpace(SubSeq(name, 1, idx))

buildFolderName(pos, displayName, tag) ==
    LET base == displayName \o <<" ", "(">> \o tag \o <<")">>
    IN  CASE pos = ShortcutPositionTop -> topPrefix \o base
          [] pos = ShortcutPositionAlpha -> base
          [] OTHER -> shortcutPrefix \o base

\* scanShortcuts' fallback: the display name read off the folder name.
displayFromFolderName(name) ==
    TrimPrefix(TrimPrefix(extractDisplayName(name), shortcutPrefix),
               legacyShortcutPrefix)


\* ------------------------------------------------------- file system

\* The tree under the Roms directory: a function from a path (the sequence
\* of the names leading to an entry) to the entry's content.
DirNode == <<"<dir>">>

\* os.Stat(path) succeeds
Exists(tree, path) == path \in DOMAIN tree

IsDir(tree, path) == Exists(tree, path) /\ tree[path] = DirNode

\* os.ReadDir: the names of the entries of a directory
ReadDir(tree, dir) ==
    {p[Len(p)] : p \in {q \in DOMAIN tree :
                          /\ Len(q) = Len(dir) + 1
                          /\ SubSeq(q, 1, Len(dir)) = dir}}

\* os.MkdirAll: the directory and every missing parent
MkdirAll(tree, dir) ==
    LET missing == {SubSeq(dir, 1, n) : n \in 1..Len(dir)} \ DOMAIN tree
    IN  [p \in DOMAIN tree \cup missing |->
            IF p \in DOMAIN tree THEN tree[p] ELSE DirNode]

\* A WriteFile that appends to what the file holds.
WriteFileAppend(tree, path, data) ==
    [p \in DOMAIN tree \cup {path} |->
        IF p # path THEN tree[p]
        ELSE IF path \in DOMAIN tree THEN tree[path] \o data ELSE data]

\* os.WriteFile: create or truncate, then write
WriteFile(tree, path, data) ==
    [p \in DOMAIN tree \cup {path} |-> IF p = path THEN data ELSE tree[p]]

\* os.RemoveAll: the entry and everything below it
RemoveAll(tree, path) ==
    LET keep == {p \in DOMAIN tree :
                    ~(Len(p) >= Len(path) /\ SubSeq(p, 1, Len(path)) = path)}
    IN  [p \in keep |-> tree[p]]

\* os.ReadFile: the content, or NoData when the file cannot be read
NoData == <<"<unreadable>">>

ReadFile(tree, path) ==
    IF Exists(tree, path) /\ tree[path] # DirNode THEN tree[path] ELSE NoData

\* ------------------------------------------------------ string utilities

DotDisabled == ".disabled"

\* Extensions of 2 to 5 bytes, the ones stripExtension removes.
ShortExts == {".md", ".m3u", ".cue", ".png", ".pak", ".bin"}

\* The tokens that start with a dot.
DotTokens == ShortExts \cup {".media", ".shortcut", ".DS_Store", DotDisabled, "."}

\* strings.HasPrefix(name, ".")
HasDotPrefix(name) == Len(name) > 0 /\ name[1] \in DotTokens

\* Dot-prefixed names, .disabled names and map.txt are hidden.
isHidden(name) ==
    \/ HasDotPrefix(name)
    \/ HasSuffix(name, <<DotDisabled>>)
    \/ name = <<"map.txt">>

isMacDotfile(name) ==
    IF ~HasDotPrefix(name) THEN FALSE ELSE extractTag(name) = <<>>

dirHasVisibleContent(tree, path) ==
    \E e \in ReadDir(tree, path) : ~isHidden(e)

stripExtension(name) ==
    IF Len(name) > 0 /\ name[Len(name)] \in ShortExts
    THEN SubSeq(name, 1, Len(name) - 1)
    ELSE name

\* A folder is a shortcut when its name starts with the marker or the legacy
\* star prefix, or when it holds the marker file.
isShortcutFolder(tree, folderPath) ==
    LET name == folderPath[Len(folderPath)]
    IN  \/ HasPrefix(name, shortcutPrefix)
        \/ HasPrefix(name, legacyShortcutPrefix)
        \/ Exists(tree, folderPath \o <<shortcutMarkerFile>>)

readShortcutMarker(tree, folderPath) ==
    LET data == ReadFile(tree, folderPath \o <<shortcutMarkerFile>>)
    IN  IF data = NoData THEN <<>> ELSE TrimSpace(data)


\* filepath.Join(base, rel) for a rel of the form ../a/b: the names are
\* split at "/" and each ".." drops the name before it.
RECURSIVE SplitPath(_)
SplitPath(str) ==
    LET cuts == {i \in 1..Len(str) : str[i] = "/"}
    IN  IF cuts = {} THEN <<str>>
        ELSE LET c == CHOOSE i \in cuts : \A j \in cuts : i <= j
             IN  <<SubSeq(str, 1, c - 1)>> \o SplitPath(SubSeq(str, c + 1, Len(str)))

RECURSIVE CleanNames(_, _)
CleanNames(done, todo) ==
    IF todo = <<>> THEN done
    ELSE IF todo[1] = <<"..">> /\ Len(done) > 0
         THEN CleanNames(SubSeq(done, 1, Len(done) - 1), Tail(todo))
    ELSE IF todo[1] \in {<<>>, <<".">>} THEN CleanNames(done, Tail(todo))
    ELSE CleanNames(Append(done, todo[1]), Tail(todo))

\* The path string of an entry of the Roms tree.
RomsDirPath == <<"/mnt/SDCARD/Roms">>

RECURSIVE PathString(_)
PathString(names) ==
    IF names = <<>> THEN RomsDirPath
    ELSE PathString(SubSeq(names, 1, Len(names) - 1))
            \o <<"/">> \o names[Len(names)]

JoinPath(base, rel) == PathString(CleanNames(base, SplitPath(rel)))

\* ------------------------------------------------------------ scanning

\* Paths outside the Roms tree are kept as strings.
ToolsDirPath == <<"/mnt/SDCARD/Tools/tg5040">>

\* The Tools directory: read, never written.
ToolsTree ==
    [p \in { <<<<"Tool", ".pak">>>>,
             <<<<"Tool", ".pak">>, <<"launch.sh">>>>,
             <<<<".media">>>>,
             <<<<".media">>, <<"Tool", ".png">>>> } |->
        IF Len(p) = 1 THEN DirNode
        ELSE IF p[2] = <<"launch.sh">> THEN <<"sh">> ELSE <<"png">>]

\* A scanConsoleDirs that does not look into the directories.
scanConsoleDirsUnopened(tree, showHidden) ==
    LET dirs == {name \in ReadDir(tree, <<>>) : IsDir(tree, <<name>>)}
        shown(name) ==
            /\ ~isShortcutFolder(tree, <<name>>)
            /\ IF ~showHidden
               THEN ~isHidden(name)
               ELSE ~(isMacDotfile(name) \/ name = <<"map.txt">>)
        baseName(name) == TrimSuffix(name, <<DotDisabled>>)
    IN  {[Name |-> name,
          Tag |-> extractTag(baseName(name)),
          Path |-> <<name>>,
          Display |-> extractDisplayName(baseName(name)),
          IsDisabled |-> HasSuffix(name, <<DotDisabled>>)] :
            name \in {n \in dirs : shown(n) /\ extractTag(baseName(n)) # <<>>}}

\* scanConsoleDirs: the category directories, shortcuts excluded.
scanConsoleDirs(tree, showHidden) ==
    LET dirs == {name \in ReadDir(tree, <<>>) : IsDir(tree, <<name>>)}
        shown(name) ==
            /\ ~isShortcutFolder(tree, <<name>>)
            /\ IF ~showHidden
               THEN ~isHidden(name) /\ dirHasVisibleContent(tree, <<name>>)
               ELSE ~(isMacDotfile(name) \/ name = <<"map.txt">>)
        baseName(name) == TrimSuffix(name, <<DotDisabled>>)
    IN  {[Name |-> name,
          Tag |-> extractTag(baseName(name)),
          Path |-> <<name>>,
          Display |-> extractDisplayName(baseName(name)),
          IsDisabled |-> HasSuffix(name, <<DotDisabled>>)] :
            name \in {n \in dirs : shown(n) /\ extractTag(baseName(n)) # <<>>}}

\* scanROMs: the games of one category directory.
scanROMs(tree, consoleDir, showHidden) ==
    LET shown(name) ==
            IF ~showHidden THEN ~isHidden(name)
            ELSE ~(HasDotPrefix(name) \/ name = <<"map.txt">>)
        baseName(name) == TrimSuffix(name, <<DotDisabled>>)
        multi(name) ==
            /\ IsDir(tree, consoleDir \o <<name>>)
            /\ Exists(tree, consoleDir \o <<name, baseName(name) \o <<".m3u">>>>)
        cue(name) ==
            /\ IsDir(tree, consoleDir \o <<name>>)
            /\ ~multi(name)
            /\ Exists(tree, consoleDir \o <<name, baseName(name) \o <<".cue">>>>)
        listed(name) ==
            /\ shown(name)
            /\ IsDir(tree, consoleDir \o <<name>>) => (multi(name) \/ cue(name))
    IN  {[Name |-> name,
          Path |-> consoleDir \o <<name>>,
          Display |-> IF IsDir(tree, consoleDir \o <<name>>)
                      THEN baseName(name)
                      ELSE stripExtension(baseName(name)),
          IsMultiDisc |-> multi(name),
          IsCueFolder |-> cue(name),
          IsDisabled |-> HasSuffix(name, <<DotDisabled>>)] :
            name \in {n \in ReadDir(tree, consoleDir) : listed(n)}}

\* scanTools: the tool packages.
scanTools(showHidden) ==
    LET dirs == {name \in ReadDir(ToolsTree, <<>>) : IsDir(ToolsTree, <<name>>)}
        disabled(name) == HasSuffix(name, <<".pak", DotDisabled>>)
        listed(name) ==
            /\ ~(~showHidden /\ isHidden(name))
            /\ ~(showHidden /\ HasDotPrefix(name))
            /\ HasSuffix(name, <<".pak">>) \/ disabled(name)
        baseName(name) ==
            IF disabled(name)
            THEN TrimSuffix(TrimSuffix(name, <<DotDisabled>>), <<".pak">>)
            ELSE TrimSuffix(name, <<".pak">>)
    IN  {[Name |-> baseName(name),
          Path |-> ToolsDirPath \o <<"/">> \o name,
          Display |-> IF disabled(name)
                      THEN baseName(name) \o <<" ", " ", "[disabled]">>
                      ELSE baseName(name)] :
            name \in {n \in dirs : listed(n)}}

\* scanShortcuts: the existing shortcuts.
scanShortcuts(tree) ==
    LET dirs == {name \in ReadDir(tree, <<>>) : IsDir(tree, <<name>>)}
        display(name) ==
            IF readShortcutMarker(tree, <<name>>) # <<>>
            THEN readShortcutMarker(tree, <<name>>)
            ELSE displayFromFolderName(name)
        target(name) ==
            IF extractTag(name) = bridgeEmuTag
            THEN LET data == ReadFile(tree, <<name, <<"target">>>>)
                 IN  IF data = NoData THEN <<>> ELSE TrimSpace(data)
            ELSE LET data == ReadFile(tree, <<name, name \o <<".m3u">>>>)
                 IN  IF data = NoData THEN <<>>
                     ELSE JoinPath(<<name>>, TrimSpace(data))
    IN  {[Name |-> name,
          Tag |-> extractTag(name),
          Display |-> display(name),
          Path |-> <<name>>,
          IsTool |-> extractTag(name) = bridgeEmuTag,
          TargetPath |-> target(name)] :
            name \in {n \in dirs : isShortcutFolder(tree, <<n>>)}}


\* ------------------------------------------------------------ settings

\* loadSettings' defaults.
DefaultSettings ==
    [CopyArtwork |-> FALSE, UseGlobalBg |-> TRUE,
     ForceBlackBg |-> FALSE, ShowHidden |-> FALSE]

\* The json keys of AppSettings.
SettingsFields == {"copy_artwork", "use_global_bg", "force_black_bg", "show_hidden"}

\* settings.json as the program finds it: missing, not json at all, or a json
\* object in which each key is absent, a boolean, or a value of another type.
MissingFile == [kind |-> "missing", fields |-> [k \in SettingsFields |-> "absent"]]

GarbageFile == [kind |-> "garbage", fields |-> [k \in SettingsFields |-> "absent"]]

JsonFile(copy, global, force, hidden) ==
    [kind |-> "json",
     fields |-> [k \in SettingsFields |->
                    CASE k = "copy_artwork" -> copy
                      [] k = "use_global_bg" -> global
                      [] k = "force_black_bg" -> force
                      [] OTHER -> hidden]]

\* json.Unmarshal into a zero AppSettings: every boolean key is stored, a key
\* of another type is skipped and makes the call return an error at the end.
Unmarshal(file) ==
    [s |-> [CopyArtwork |-> file.fields["copy_artwork"] = "true",
            UseGlobalBg |-> file.fields["use_global_bg"] = "true",
            ForceBlackBg |-> file.fields["force_black_bg"] = "true",
            ShowHidden |-> file.fields["show_hidden"] = "true"],
     err |-> \/ file.kind = "garbage"
             \/ \E k \in SettingsFields : file.fields[k] = "text"]

\* A loadSettings that keeps what Unmarshal stored before it failed.
loadSettingsPartial(file) ==
    IF file.kind = "missing" THEN DefaultSettings ELSE Unmarshal(file).s

\* loadSettings: the defaults on any error.
loadSettings(file) ==
    IF file.kind = "missing" THEN DefaultSettings
    ELSE IF Unmarshal(file).err THEN DefaultSettings
    ELSE Unmarshal(file).s

\* The preferences a run may find on the card.
SettingsChoices ==
    {loadSettings(MissingFile),
     loadSettings(JsonFile("true", "true", "false", "false"))}

\* ------------------------------------------------------------- artwork

\* screenDimensions: the native screen size, width then height.
screenDimensions(brick) == IF brick THEN <<1024, 768>> ELSE <<1280, 720>>

\* The steps of generateArtworkBg that can fail: decoding the source art,
\* loading the global wallpaper, creating .media, creating bg.png.
ArtFaults == {"loadArt", "noWallpaper", "mkdirMedia", "createBg"}

\* Go's integer division, which truncates toward zero.
GoDiv(a, b) == IF a >= 0 THEN a \div b ELSE -((-a) \div b)

\* The largest f with 2^f <= n/d: the exponent of the float64 n/d.
RECURSIVE FloorLog2(_, _)
FloorLog2(n, d) ==
    IF n >= 2 * d THEN 1 + FloorLog2(n, 2 * d)
    ELSE IF n < d THEN FloorLog2(2 * n, d) - 1
    ELSE 0

RECURSIVE Pow2(_)
Pow2(k) == IF k = 0 THEN 1 ELSE 2 * Pow2(k - 1)

RECURSIVE Pow2Mod(_, _)
Pow2Mod(k, m) == IF k = 0 THEN 1 % m ELSE (2 * Pow2Mod(k - 1, m)) % m

\* int(float64(a) * (float64(n) / float64(d))) for positive a, n, d below
\* 2^12, in IEEE 754 double arithmetic.  The quotient is n/d rounded to 53
\* bits (to nearest, ties to even): with f its exponent and k = 52 - f, it is
\* m / 2^k for the integer m nearest to n*2^k/d, and r = n*2^k - m*d is what
\* the rounding dropped (r > 0: rounded down).  The product a*m/2^k lies
\* within 2^-40 of a*n/d, so its integer part is that of a*n/d unless a*n/d
\* is an integer T and the quotient was rounded down: then the product is
\* T - a*r/(d*2^k), which rounds back to T only if it lies within half a
\* unit in the last place below T, and is truncated to T - 1 otherwise.
mulDivTrunc(a, n, d) ==
    LET f == FloorLog2(n, d)
        k == 52 - f
        rem2 == (n * Pow2Mod(k, 2 * d)) % (2 * d)
        rem == rem2 % d
        r == IF 2 * rem < d THEN rem
             ELSE IF 2 * rem > d THEN rem - d
             ELSE IF rem2 < d THEN rem ELSE rem - d
        T == (a * n) \div d
        eT == FloorLog2(T, 1)
        short == IF T = Pow2(eT)
                 THEN 4 * a * r > d * Pow2(eT - f)
                 ELSE 4 * a * r > d * Pow2(eT - f + 1)
    IN  IF (a * n) % d # 0 THEN T
        ELSE IF r <= 0 \/ T = 0 THEN T
        ELSE IF short THEN T - 1 ELSE T

\* generateArtworkBg, layer 1: the size the wallpaper is scaled to, by the
\* larger of the two ratios, and the offsets of the centre crop.
scaleToCover(srcW, srcH, screenW, screenH) ==
    LET byHeight == screenH * srcW > screenW * srcH
        newW == IF byHeight THEN mulDivTrunc(srcW, screenH, srcH)
                ELSE mulDivTrunc(srcW, screenW, srcW)
        newH == IF byHeight THEN mulDivTrunc(srcH, screenH, srcH)
                ELSE mulDivTrunc(srcH, screenW, srcW)
    IN  [newW |-> newW, newH |-> newH,
         offX |-> GoDiv(newW - screenW, 2), offY |-> GoDiv(newH - screenH, 2)]

\* generateArtworkBg, layer 2: the box the art is fitted in, 0.45 of the
\* screen's width by 0.60 of its height.
artBox(screenW, screenH) == <<(screenW * 45) \div 100, (screenH * 60) \div 100>>

\* A thumbnailFit that never clamps to the height.
thumbnailFitWidthOnly(srcW, srcH, maxW, maxH) ==
    IF srcW = 0 \/ srcH = 0 THEN <<maxW, maxH>>
    ELSE <<maxW, (srcH * maxW) \div srcW>>

\* thumbnailFit: (srcW, srcH) scaled to fit within (maxW, maxH).
thumbnailFit(srcW, srcH, maxW, maxH) ==
    IF srcW = 0 \/ srcH = 0 THEN <<maxW, maxH>>
    ELSE IF (srcH * maxW) \div srcW > maxH
         THEN <<(srcW * maxH) \div srcH, maxH>>
         ELSE <<maxW, (srcH * maxW) \div srcW>>

\* The radius generateArtworkBg passes to applyRoundedCorners.
ThumbRadius == 40

\* The right margin of the art, in pixels.
rightMargin == 30

\* An applyRoundedCorners that rounds the two left corners only.
applyRoundedCornersLeftOnly(w, h, radius) ==
    IF radius <= 0 \/ w = 0 \/ h = 0 THEN {}
    ELSE {px \in (0..(w - 1)) \X (0..(h - 1)) :
            LET x == px[1]
                y == px[2]
                dx == IF x < radius THEN radius - x ELSE 0
                dy == IF y < radius THEN radius - y
                      ELSE IF y >= h - radius THEN y - (h - radius - 1)
                      ELSE 0
            IN  dx * dx + dy * dy > radius * radius}

\* applyRoundedCorners on a w by h image: the pixels <<x, y>> it zeroes; all
\* the others are left as they were.
applyRoundedCorners(w, h, radius) ==
    IF radius <= 0 \/ w = 0 \/ h = 0 THEN {}
    ELSE {px \in (0..(w - 1)) \X (0..(h - 1)) :
            LET x == px[1]
                y == px[2]
                dx == IF x < radius THEN radius - x
                      ELSE IF x >= w - radius THEN x - (w - radius - 1)
                      ELSE 0
                dy == IF y < radius THEN radius - y
                      ELSE IF y >= h - radius THEN y - (h - radius - 1)
                      ELSE 0
            IN  dx * dx + dy * dy > radius * radius}

\* An art placement that centres the art on the canvas.
artPlacementCentred(screenW, screenH, artW, artH) ==
    LET targetX == GoDiv(screenW, 2) - GoDiv(artW, 2)
        centerY == GoDiv(screenH, 2) - GoDiv(artH, 2)
    IN  [minX |-> targetX, minY |-> centerY,
         maxX |-> targetX + artW, maxY |-> centerY + artH]

\* generateArtworkBg, layer 2: the rectangle artDst the art is drawn in.
artPlacement(screenW, screenH, artW, artH) ==
    LET free == screenW - artW - rightMargin
        targetX == IF free > 0 THEN free ELSE 0
        centerY == GoDiv(screenH, 2) - GoDiv(artH, 2)
    IN  [minX |-> targetX, minY |-> centerY,
         maxX |-> targetX + artW, maxY |-> centerY + artH]

\* A generateArtworkBg that goes on without art whatever forceBlack says.
generateArtworkBgNeverSkips(tree, artTree, artSrcPath, destFolder, useGlobalBg, forceBlack, fault) ==
    LET hasArt == Exists(artTree, artSrcPath)
        base == IF useGlobalBg /\ fault # "noWallpaper" THEN "wallpaper" ELSE "black"
        screen == screenDimensions(isBrick)
        image == <<"png", ToString(screen[1]), "x", ToString(screen[2]),
                   base, IF hasArt THEN "art" ELSE "noart">>
        mediaDir == destFolder \o <<<<".media">>>>
    IN  IF hasArt /\ fault = "loadArt" THEN tree
        ELSE IF fault = "mkdirMedia" THEN tree
        ELSE IF fault = "createBg" THEN MkdirAll(tree, mediaDir)
        ELSE WriteFile(MkdirAll(tree, mediaDir), mediaDir \o <<<<"bg", ".png">>>>, image)

\* generateArtworkBg: the tree after compositing bg.png for destFolder.
\* artTree holds the source art; fault names the step that fails, if any.
generateArtworkBg(tree, artTree, artSrcPath, destFolder, useGlobalBg, forceBlack, fault) ==
    LET hasArt == Exists(artTree, artSrcPath)
        base == IF useGlobalBg /\ fault # "noWallpaper" THEN "wallpaper" ELSE "black"
        screen == screenDimensions(isBrick)
        image == <<"png", ToString(screen[1]), "x", ToString(screen[2]),
                   base, IF hasArt THEN "art" ELSE "noart">>
        mediaDir == destFolder \o <<<<".media">>>>
    IN  IF hasArt /\ fault = "loadArt" THEN tree
        ELSE IF ~hasArt /\ ~forceBlack THEN tree
        ELSE IF fault = "mkdirMedia" THEN tree
        ELSE IF fault = "createBg" THEN MkdirAll(tree, mediaDir)
        ELSE WriteFile(MkdirAll(tree, mediaDir), mediaDir \o <<<<"bg", ".png">>>>, image)


\* --------------------------------------------- shortcut creation / removal

\* The steps of a creation that can fail.
Faults(copyArtwork, isTool) ==
    {"none", "mkdir", "m3u", "marker"}
        \cup (IF isTool THEN {"target"} ELSE {})
        \cup (IF copyArtwork THEN {"createBg"} ELSE {})

\* A flow can also be cut short (power loss, the pak killed) between the
\* write of the pointer file and the write of the marker.
FlowFaults(copyArtwork, isTool) == Faults(copyArtwork, isTool) \cup {"interrupt"}

\* The artwork steps generateArtworkBg reaches, hence those that can fail:
\* the art is decoded when its file exists, the wallpaper is loaded when the
\* base is the wallpaper, and .media and bg.png are created unless the call
\* returns early for want of art.
ReachedArtFaults(hasArt, useGlobalBg, forceBlack) ==
    (IF hasArt THEN {"loadArt"} ELSE {})
        \cup (IF (hasArt \/ forceBlack) /\ useGlobalBg THEN {"noWallpaper"} ELSE {})
        \cup (IF hasArt \/ forceBlack THEN {"mkdirMedia", "createBg"} ELSE {})

\* The failures after which a creation call still returns nil: of the marker
\* write, and of the artwork steps the call reaches.
MediaFaults(prefs, hasArt) ==
    {"none", "marker"}
        \cup (IF prefs.CopyArtwork
              THEN ReachedArtFaults(hasArt, prefs.UseGlobalBg, prefs.ForceBlackBg)
              ELSE {})

\* writeShortcutMarker: the marker file, holding the clean display name.
writeShortcutMarker(tree, folderPath, displayName) ==
    WriteFile(tree, folderPath \o <<shortcutMarkerFile>>, displayName)

\* The pointer file's content for a game.
romRelPath(consoleDirName, rom) ==
    CASE rom.IsMultiDisc ->
            <<"..", "/">> \o consoleDirName \o <<"/">> \o rom.Name
                \o <<"/">> \o rom.Name \o <<".m3u">>
      [] rom.IsCueFolder ->
            <<"..", "/">> \o consoleDirName \o <<"/">> \o rom.Name
                \o <<"/">> \o rom.Name \o <<".cue">>
      [] OTHER ->
            <<"..", "/">> \o consoleDirName \o <<"/">> \o rom.Name

\* The source art of a game: <Roms>/<console dir>/.media/<display>.png
romArtworkSrc(consoleDirName, displayName) ==
    [root |-> "roms",
     path |-> CleanNames(<<>>, <<consoleDirName, <<".media">>,
                                 displayName \o <<".png">>>>)]

\* The source art of a tool: <tools dir>/.media/<display>.png
toolArtworkSrc(displayName) ==
    [root |-> "tools",
     path |-> CleanNames(<<>>, <<<<".media">>, displayName \o <<".png">>>>)]

\* A createROMShortcut that gives up when the artwork step fails.
createROMShortcutStrictArt(tree, displayName, tag, consoleDirName, rom, pos, prefs, fault) ==
    LET folderName == buildFolderName(pos, displayName, tag)
        folderPath == <<folderName>>
        t1 == MkdirAll(tree, folderPath)
        t2 == WriteFile(t1, folderPath \o <<folderName \o <<".m3u">>>>,
                        romRelPath(consoleDirName, rom))
        t3 == IF fault = "marker" THEN t2
              ELSE writeShortcutMarker(t2, folderPath, displayName)
        artworkSrc == romArtworkSrc(consoleDirName, displayName).path
        t4 == IF prefs.CopyArtwork
              THEN generateArtworkBg(t3, t3, artworkSrc, folderPath,
                                     prefs.UseGlobalBg, prefs.ForceBlackBg, fault)
              ELSE t3
    IN  IF fault = "mkdir"
        THEN [tree |-> tree, err |-> "creating shortcut dir"]
        ELSE IF fault = "m3u"
        THEN [tree |-> t1, err |-> "writing m3u"]
        ELSE IF fault = "interrupt"
        THEN [tree |-> t2, err |-> "interrupted"]
        ELSE IF prefs.CopyArtwork /\ fault \in ArtFaults
        THEN [tree |-> t4, err |-> "generating artwork"]
        ELSE [tree |-> t4, err |-> ""]

\* createROMShortcut: the tree it leaves and the error it returns ("" is nil).
createROMShortcut(tree, displayName, tag, consoleDirName, rom, pos, prefs, fault) ==
    LET folderName == buildFolderName(pos, displayName, tag)
        folderPath == <<folderName>>
        t1 == MkdirAll(tree, folderPath)
        t2 == WriteFile(t1, folderPath \o <<folderName \o <<".m3u">>>>,
                        romRelPath(consoleDirName, rom))
        t3 == IF fault = "marker" THEN t2
              ELSE writeShortcutMarker(t2, folderPath, displayName)
        artworkSrc == romArtworkSrc(consoleDirName, displayName).path
        t4 == IF prefs.CopyArtwork
              THEN generateArtworkBg(t3, t3, artworkSrc, folderPath,
                                     prefs.UseGlobalBg, prefs.ForceBlackBg, fault)
              ELSE t3
    IN  IF fault = "mkdir"
        THEN [tree |-> tree, err |-> "creating shortcut dir"]
        ELSE IF fault = "m3u"
        THEN [tree |-> t1, err |-> "writing m3u"]
        ELSE IF fault = "interrupt"
        THEN [tree |-> t2, err |-> "interrupted"]
        ELSE [tree |-> t4, err |-> ""]

\* createToolShortcut: the tree it leaves and the error it returns.
createToolShortcut(tree, displayName, pakPath, pos, prefs, fault) ==
    LET folderName == buildFolderName(pos, displayName, bridgeEmuTag)
        folderPath == <<folderName>>
        t1 == MkdirAll(tree, folderPath)
        t2 == WriteFile(t1, folderPath \o <<<<"target">>>>, pakPath)
        t3 == WriteFile(t2, folderPath \o <<folderName \o <<".m3u">>>>, <<"target">>)
        t4 == IF fault = "marker" THEN t3
              ELSE writeShortcutMarker(t3, folderPath, displayName)
        artworkSrc == toolArtworkSrc(displayName).path
        t5 == IF prefs.CopyArtwork
              THEN generateArtworkBg(t4, ToolsTree, artworkSrc, folderPath,
                                     prefs.UseGlobalBg, prefs.ForceBlackBg, fault)
              ELSE t4
    IN  IF fault = "mkdir"
        THEN [tree |-> tree, err |-> "creating shortcut dir"]
        ELSE IF fault = "target"
        THEN [tree |-> t1, err |-> "writing target"]
        ELSE IF fault = "m3u"
        THEN [tree |-> t2, err |-> "writing m3u"]
        ELSE IF fault = "interrupt"
        THEN [tree |-> t3, err |-> "interrupted"]
        ELSE [tree |-> t5, err |-> ""]

\* A removeShortcut by os.Remove, which removes an empty directory only.
removeShortcutNotRecursive(tree, shortcutPath) ==
    IF ReadDir(tree, shortcutPath) = {} THEN RemoveAll(tree, shortcutPath) ELSE tree

\* removeShortcut
removeShortcut(tree, shortcutPath) == RemoveAll(tree, shortcutPath)

\* A shortcutExists that looks under the Bottom and Top names only.
shortcutExistsNoAlpha(tree, displayName, tag) ==
    \E pos \in {ShortcutPositionBottom, ShortcutPositionTop} :
        Exists(tree, <<buildFolderName(pos, displayName, tag)>>)

\* A shortcutExists that looks under the Bottom name only.
shortcutExistsBottomOnly(tree, displayName, tag) ==
    Exists(tree, <<buildFolderName(ShortcutPositionBottom, displayName, tag)>>)

\* shortcutExists: a folder for (displayName, tag) under any position.
shortcutExists(tree, displayName, tag) ==
    \E pos \in Positions :
        Exists(tree, <<buildFolderName(pos, displayName, tag)>>)

\* ------------------------------------------------------ bulk artwork

\* The empty path shortcutArtSrcPath returns when the pointer file cannot be
\* read or is not of the form ../<console dir>/...
NoArtSrc == [root |-> "none", path |-> <<>>]

\* A shortcutArtSrcPath that takes the last component of the pointer's path
\* for the console directory.
shortcutArtSrcPathLastPart(tree, sc) ==
    IF sc.IsTool THEN toolArtworkSrc(sc.Display)
    ELSE LET data == ReadFile(tree, sc.Path \o <<sc.Name \o <<".m3u">>>>)
             parts == SplitPath(TrimSpace(data))
         IN  IF data = NoData THEN NoArtSrc
             ELSE IF Len(parts) < 2 \/ parts[1] # <<"..">> THEN NoArtSrc
             ELSE romArtworkSrc(parts[Len(parts)], sc.Display)

\* shortcutArtSrcPath: where the source art of a scanned shortcut is.
shortcutArtSrcPath(tree, sc) ==
    IF sc.IsTool THEN toolArtworkSrc(sc.Display)
    ELSE LET data == ReadFile(tree, sc.Path \o <<sc.Name \o <<".m3u">>>>)
             parts == SplitPath(TrimSpace(data))
         IN  IF data = NoData THEN NoArtSrc
             ELSE IF Len(parts) < 2 \/ parts[1] # <<"..">> THEN NoArtSrc
             ELSE romArtworkSrc(parts[2], sc.Display)

\* regenerateAllMedia's loop over the scanned shortcuts.
RECURSIVE regenerateEach(_, _, _, _)
regenerateEach(tree, shortcuts, prefs, fault) ==
    IF shortcuts = {} THEN tree
    ELSE LET sc == CHOOSE x \in shortcuts : TRUE
             artSrc == shortcutArtSrcPath(tree, sc)
             done == IF artSrc # NoArtSrc \/ prefs.ForceBlackBg
                     THEN generateArtworkBg(
                              tree,
                              IF artSrc.root = "tools" THEN ToolsTree ELSE tree,
                              artSrc.path, sc.Path,
                              prefs.UseGlobalBg, prefs.ForceBlackBg, fault)
                     ELSE tree
         IN  regenerateEach(done, shortcuts \ {sc}, prefs, fault)

\* regenerateAllMedia: bg.png composited again for every scanned shortcut.
regenerateAllMedia(tree, prefs, fault) ==
    regenerateEach(tree, scanShortcuts(tree), prefs, fault)

\* A removeAllMedia that removes each .media directory with all it holds.
removeAllMediaWholeDir(tree) ==
    LET medias == {sc.Path \o <<<<".media">>>> : sc \in scanShortcuts(tree)}
        keep == {p \in DOMAIN tree :
                    ~\E m \in medias : Len(p) >= Len(m) /\ SubSeq(p, 1, Len(m)) = m}
    IN  [p \in keep |-> tree[p]]

\* removeAllMedia: os.Remove of .media/bg.png, then os.Remove of .media, which
\* succeeds only on an empty directory, for every scanned shortcut.
removeAllMedia(tree) ==
    LET medias == {sc.Path \o <<<<".media">>>> : sc \in scanShortcuts(tree)}
        isBg(p) == \E m \in medias :
                      /\ p = m \o <<<<"bg", ".png">>>>
                      /\ ReadDir(tree, p) = {}
        t1 == [p \in {q \in DOMAIN tree : ~isBg(q)} |-> tree[p]]
        emptied == {m \in medias : Exists(t1, m) /\ ReadDir(t1, m) = {}}
    IN  [p \in DOMAIN t1 \ emptied |-> t1[p]]

\* ------------------------------------------------------- initial state

SegaDir == <<"Sega", " ", "(", "MD", ")">>
FooRom == <<"Foo", " ", "(", "W", ")", ".md">>
FooArt == <<"Foo", " ", "(", "W", ")", ".png">>
StarOld == <<STAR, " ", "Old", " ", "(", "MD", ")">>
ZwsOld == <<ZWSP, "Zws", " ", "(", "MD", ")">>
ZwsNew == <<ZWSP, "New", " ", "(", "MD", ")">>

\* The entries of the card's Roms directory before the program runs: one
\* category with a single-file game, a multi-disc game, a single-disc cue
\* game and source art, and shortcut folders left by the earlier releases.
InitEntries ==
    { <<<<SegaDir>>, DirNode>>,
      <<<<SegaDir, FooRom>>, <<"rom">>>>,
      <<<<SegaDir, <<"Disc">>>>, DirNode>>,
      <<<<SegaDir, <<"Disc">>, <<"Disc", ".m3u">>>>, <<"playlist">>>>,
      <<<<SegaDir, <<"Cue">>>>, DirNode>>,
      <<<<SegaDir, <<"Cue">>, <<"Cue", ".cue">>>>, <<"cuesheet">>>>,
      <<<<SegaDir, <<".media">>>>, DirNode>>,
      <<<<SegaDir, <<".media">>, FooArt>>, <<"png">>>>,
      <<<<StarOld>>, DirNode>>,
      <<<<StarOld, StarOld \o <<".m3u">>>>,
        <<"..", "/">> \o SegaDir \o <<"/">> \o FooRom>>,
      <<<<ZwsOld>>, DirNode>>,
      <<<<ZwsOld, ZwsOld \o <<".m3u">>>>,
        <<"..", "/">> \o SegaDir \o <<"/">> \o FooRom>>,
      <<<<ZwsNew>>, DirNode>>,
      <<<<ZwsNew, ZwsNew \o <<".m3u">>>>,
        <<"..", "/">> \o SegaDir \o <<"/", "Disc", "/", "Disc", ".m3u">>>>,
      <<<<ZwsNew, shortcutMarkerFile>>, <<"New">>>>,
      <<<<ZwsNew, <<".media">>>>, DirNode>>,
      <<<<ZwsNew, <<".media">>, <<"bg", ".png">>>>, <<"png", "old">>>>,
      <<<<StarOld, <<".media">>>>, DirNode>>,
      <<<<StarOld, <<".media">>, <<"bg", ".png">>>>, <<"png", "old">>>>,
      <<<<StarOld, <<".media">>, <<"bglist", ".png">>>>, <<"png", "mine">>>> }

InitTree ==
    [p \in {e[1] : e \in InitEntries} |->
        (CHOOSE e \in InitEntries : e[1] = p)[2]]

NoOp ==
    [op |-> "none", display |-> <<>>, tag |-> <<>>, pos |-> "",
     console |-> <<>>, entry |-> <<>>, kind |-> "", fault |-> "none",
     err |-> "", again |-> FALSE]

NoCalc == [fn |-> "none"]

NoCodec == [phase |-> "off", pos |-> "", display |-> <<>>, tag |-> <<>>,
            name |-> <<>>,
            out |-> [display |-> <<>>, tag |-> <<>>, pos |-> ""]]

Init ==
    /\ fs = InitTree
    /\ settingsFile \in {MissingFile, JsonFile("true", "true", "false", "false")}
    /\ settings = loadSettings(settingsFile)
    /\ isBrick = FALSE
    /\ calc = NoCalc
    /\ made = {}
    /\ last = NoOp
    /\ ui = "none"
    /\ nops = 0
    /\ codec = NoCodec

\* ---------------------------------------------------- the writer's calls

RomKind(rom) ==
    IF rom.IsMultiDisc THEN "multi" ELSE IF rom.IsCueFolder THEN "cue" ELSE "single"

\* What a creation leaves in the history: the call, and the shortcut when
\* the call returned nil.
Record(op, displayName, tag, pos, console, entry, kind, fault, err) ==
    /\ last' = [op |-> op, display |-> displayName, tag |-> tag, pos |-> pos,
                console |-> console, entry |-> entry, kind |-> kind,
                fault |-> fault, err |-> err,
                again |-> /\ last.op = op
                          /\ last.display = displayName
                          /\ last.tag = tag
                          /\ last.pos = pos
                          /\ last.entry = entry
                          /\ last.fault # "none"]
    /\ made' = IF err = ""
               THEN made \cup {[folder |-> buildFolderName(pos, displayName, tag),
                                display |-> displayName, tag |-> tag,
                                console |-> console, kind |-> kind]}
               ELSE made

\* A call of createROMShortcut for a scanned game.
CreateROM ==
    /\ nops < MaxOps
    /\ \E console \in scanConsoleDirs(fs, settings.ShowHidden) :
       \E rom \in scanROMs(fs, console.Path, settings.ShowHidden) :
       \E pos \in Positions :
       \E fault \in Faults(settings.CopyArtwork, FALSE) :
          LET r == createROMShortcut(fs, rom.Display, console.Tag, console.Name,
                                     rom, pos, settings, fault)
          IN  /\ fs' = r.tree
              /\ Record("createROM", rom.Display, console.Tag, pos,
                        console.Name, rom.Name, RomKind(rom), fault, r.err)
    /\ nops' = nops + 1
    /\ UNCHANGED <<settingsFile, settings, isBrick, ui, codec, calc>>

\* A call of createToolShortcut for a scanned tool.
CreateTool ==
    /\ nops < MaxOps
    /\ \E tool \in scanTools(settings.ShowHidden) :
       \E pos \in Positions :
       \E fault \in Faults(settings.CopyArtwork, TRUE) :
          LET r == createToolShortcut(fs, tool.Display, tool.Path, pos,
                                      settings, fault)
          IN  /\ fs' = r.tree
              /\ Record("createTool", tool.Display, bridgeEmuTag, pos,
                        <<>>, tool.Path, "tool", fault, r.err)
    /\ nops' = nops + 1
    /\ UNCHANGED <<settingsFile, settings, isBrick, ui, codec, calc>>

\* A call of removeShortcut for a scanned shortcut.
Remove ==
    /\ nops < MaxOps
    /\ \E sc \in scanShortcuts(fs) :
          /\ fs' = removeShortcut(fs, sc.Path)
          /\ made' = {m \in made : m.folder # sc.Name}
          /\ last' = [NoOp EXCEPT !.op = "remove", !.display = sc.Display,
                                  !.tag = sc.Tag, !.entry = sc.Name]
    /\ nops' = nops + 1
    /\ UNCHANGED <<settingsFile, settings, isBrick, ui, codec, calc>>

Next == CreateROM \/ CreateTool \/ Remove

Spec == Init /\ [][Next]_vars


\* ------------------------------------------------------- the menu flows

\* addROMShortcutFlow, with the user picking a console, a game and a position
\* and confirming.  The flow shows "Shortcut created!" whatever the call returns.
AddROMFlowOver(artFaults) ==
    /\ nops < MaxOps
    /\ LET consoles == scanConsoleDirs(fs, settings.ShowHidden)
       IN  IF consoles = {}
           THEN /\ ui' = "error"
                /\ last' = [NoOp EXCEPT !.op = "addROM"]
                /\ UNCHANGED <<fs, made>>
           ELSE \E console \in consoles :
                LET roms == scanROMs(fs, console.Path, settings.ShowHidden)
                IN  IF roms = {}
                    THEN /\ ui' = "error"
                         /\ last' = [NoOp EXCEPT !.op = "addROM"]
                         /\ UNCHANGED <<fs, made>>
                    ELSE \E rom \in roms :
                         IF shortcutExists(fs, rom.Display, console.Tag)
                         THEN /\ ui' = "exists"
                              /\ last' = [NoOp EXCEPT !.op = "addROM",
                                                      !.display = rom.Display,
                                                      !.tag = console.Tag]
                              /\ UNCHANGED <<fs, made>>
                         ELSE \E pos \in Positions :
                              \E fault \in (IF artFaults
                                            THEN MediaFaults(settings, Exists(fs, romArtworkSrc(console.Name, rom.Display).path))
                                            ELSE FlowFaults(settings.CopyArtwork, FALSE)) :
                                 LET r == createROMShortcut(fs, rom.Display,
                                              console.Tag, console.Name, rom,
                                              pos, settings, fault)
                                 IN  /\ fs' = r.tree
                                     /\ Record("createROM", rom.Display,
                                               console.Tag, pos, console.Name,
                                               rom.Name, RomKind(rom), fault, r.err)
                                     /\ ui' = IF fault = "interrupt"
                                              THEN "none" ELSE "created"
    /\ nops' = nops + 1
    /\ UNCHANGED <<settingsFile, settings, isBrick, codec, calc>>

AddROMFlow ==
    AddROMFlowOver(FALSE)

\* addToolShortcutFlow
AddToolFlowOver(artFaults) ==
    /\ nops < MaxOps
    /\ LET tools == scanTools(settings.ShowHidden)
       IN  IF tools = {}
           THEN /\ ui' = "error"
                /\ last' = [NoOp EXCEPT !.op = "addTool"]
                /\ UNCHANGED <<fs, made>>
           ELSE \E tool \in tools :
                IF shortcutExists(fs, tool.Display, bridgeEmuTag)
                THEN /\ ui' = "exists"
                     /\ last' = [NoOp EXCEPT !.op = "addTool",
                                             !.display = tool.Display,
                                             !.tag = bridgeEmuTag]
                     /\ UNCHANGED <<fs, made>>
                ELSE \E pos \in Positions :
                     \E fault \in (IF artFaults
                                   THEN MediaFaults(settings, Exists(ToolsTree, toolArtworkSrc(tool.Display).path))
                                   ELSE FlowFaults(settings.CopyArtwork, TRUE)) :
                        LET r == createToolShortcut(fs, tool.Display, tool.Path,
                                                    pos, settings, fault)
                        IN  /\ fs' = r.tree
                            /\ Record("createTool", tool.Display, bridgeEmuTag,
                                      pos, <<>>, tool.Path, "tool", fault, r.err)
                            /\ ui' = IF fault = "interrupt"
                                     THEN "none" ELSE "created"
    /\ nops' = nops + 1
    /\ UNCHANGED <<settingsFile, settings, isBrick, codec, calc>>

AddToolFlow ==
    AddToolFlowOver(FALSE)

\* A flow the user backs out of, at a picker or at the confirmation.
FlowCancelled ==
    /\ nops < MaxOps
    /\ last' = [NoOp EXCEPT !.op = "cancel"]
    /\ ui' = "none"
    /\ nops' = nops + 1
    /\ UNCHANGED <<fs, settingsFile, settings, isBrick, made, codec, calc>>

\* manageShortcutsFlow down to confirmDelete, the user confirming.
ManageDelete ==
    /\ nops < MaxOps
    /\ LET shortcuts == scanShortcuts(fs)
       IN  IF shortcuts = {}
           THEN /\ ui' = "error"
                /\ last' = [NoOp EXCEPT !.op = "remove"]
                /\ UNCHANGED <<fs, made>>
           ELSE \E sc \in shortcuts :
                   /\ fs' = removeShortcut(fs, sc.Path)
                   /\ made' = {m \in made : m.folder # sc.Name}
                   /\ last' = [NoOp EXCEPT !.op = "remove", !.display = sc.Display,
                                           !.tag = sc.Tag, !.entry = sc.Name]
                   /\ ui' = "removed"
    /\ nops' = nops + 1
    /\ UNCHANGED <<settingsFile, settings, isBrick, codec, calc>>

\* regenerateAllMediaFlow, the user confirming.
RegenerateAllMediaFlow ==
    /\ nops < MaxOps
    /\ \E fault \in {"none"} \cup ReachedArtFaults(TRUE, settings.UseGlobalBg,
                                                   settings.ForceBlackBg) :
          /\ fs' = regenerateAllMedia(fs, settings, fault)
          /\ last' = [NoOp EXCEPT !.op = "regenerateAllMedia", !.fault = fault]
    /\ ui' = "regenerated"
    /\ nops' = nops + 1
    /\ UNCHANGED <<settingsFile, settings, isBrick, made, codec, calc>>

\* removeAllMediaFlow, the user confirming.
RemoveAllMediaFlow ==
    /\ nops < MaxOps
    /\ fs' = removeAllMedia(fs)
    /\ last' = [NoOp EXCEPT !.op = "removeAllMedia"]
    /\ ui' = "artRemoved"
    /\ nops' = nops + 1
    /\ UNCHANGED <<settingsFile, settings, isBrick, made, codec, calc>>

NextFlows == AddROMFlow \/ AddToolFlow \/ FlowCancelled \/ ManageDelete

SpecFlows == Init /\ [][NextFlows]_vars

\* ---------------------------------------------- the artwork operations

\* The cards of the artwork runs, each a settings file and a device (TRUE
\* for the Brick): a file that does not parse, and copy-artwork on with art
\* on black, art on the wallpaper, and fallback to the wallpaper.
MediaSetups ==
    {<<JsonFile("true", "text", "true", "false"), FALSE>>,
     <<JsonFile("true", "false", "true", "false"), TRUE>>,
     <<JsonFile("true", "true", "true", "false"), FALSE>>,
     <<JsonFile("true", "true", "false", "false"), TRUE>>}

InitMedia ==
    /\ fs = InitTree
    /\ \E setup \in MediaSetups :
          /\ settingsFile = setup[1]
          /\ isBrick = setup[2]
    /\ settings = loadSettings(settingsFile)
    /\ calc = NoCalc
    /\ made = {}
    /\ last = NoOp
    /\ ui = "none"
    /\ nops = 0
    /\ codec = NoCodec

\* The add flows, with the failures of the artwork step.
AddROMArtFlow ==
    AddROMFlowOver(TRUE)

AddToolArtFlow ==
    AddToolFlowOver(TRUE)

NextMedia ==
    AddROMArtFlow \/ AddToolArtFlow \/ RegenerateAllMediaFlow \/ RemoveAllMediaFlow

SpecMedia == InitMedia /\ [][NextMedia]_vars

\* ------------------------------------------------ the pickers on cards

\* Names of directories of the Roms directory: a category, hidden by a dot,
\* disabled, both, a system directory, map.txt, and one without a tag.
CardDirs ==
    {SegaDir,
     <<".">> \o SegaDir,
     SegaDir \o <<DotDisabled>>,
     <<".">> \o SegaDir \o <<DotDisabled>>,
     <<".", "Trash">>,
     <<"map.txt">>,
     <<"Sega">>}

\* What a directory holds: nothing, a file, or a folder with one file in it.
CardEntries ==
    {[name |-> <<>>, inner |-> <<>>]}
        \cup {[name |-> n, inner |-> <<>>] :
                 n \in {<<"Sega", ".md">>, <<".", "Foo", ".md">>,
                        <<"Foo", ".md", DotDisabled>>, <<"map.txt">>,
                        <<".DS_Store">>}}
        \cup {[name |-> n, inner |-> i] :
                 n \in {<<"Disc">>, <<"Disc", DotDisabled>>, <<".", "Disc">>},
                 i \in {<<"Disc", ".m3u">>, <<"Disc", ".cue">>,
                        <<"track", ".bin">>}}
        \cup {[name |-> <<".media">>, inner |-> <<"Sega", ".png">>]}

\* The Roms directory of a card.
CardTree(dir, entry) ==
    LET paths == {<<dir>>}
                    \cup (IF entry.name = <<>> THEN {} ELSE {<<dir, entry.name>>})
                    \cup (IF entry.inner = <<>> THEN {}
                          ELSE {<<dir, entry.name, entry.inner>>})
    IN  [p \in paths |->
            IF Len(p) = 1 \/ (Len(p) = 2 /\ entry.inner # <<>>) THEN DirNode
            ELSE <<"data">>]

InitCards ==
    /\ \E dir \in CardDirs : \E entry \in CardEntries : fs = CardTree(dir, entry)
    /\ settingsFile \in {MissingFile, JsonFile("false", "true", "false", "true")}
    /\ settings = loadSettings(settingsFile)
    /\ isBrick = FALSE
    /\ calc = NoCalc
    /\ made = {}
    /\ last = NoOp
    /\ ui = "none"
    /\ nops = 0
    /\ codec = NoCodec

NextCards == AddROMArtFlow \/ FlowCancelled

SpecCards == InitCards /\ [][NextCards]_vars

\* ------------------------------------------- the functions on their own

\* Longest side of the small images drawn.
MaxSide == 12

\* Sizes of art and wallpapers as they are found on cards.
CardImages ==
    {<<640, 480>>, <<600, 900>>, <<577, 433>>, <<1024, 1024>>, <<2000, 500>>,
     <<1280, 720>>, <<1920, 1080>>, <<1024, 768>>, <<1232, 800>>, <<77, 44>>,
     <<188, 141>>, <<1000, 1>>}

\* The boxes thumbnailFit is called with, and small ones.
FitBoxes ==
    {artBox(screenDimensions(b)[1], screenDimensions(b)[2]) : b \in BOOLEAN}
        \cup {<<1, 1>>, <<2, 3>>, <<3, 2>>, <<5, 4>>, <<7, 7>>}

\* The radii applyRoundedCorners is tried with on the small images.
SmallRadii == 0..3

\* Fitted art with the radius of the program: wide, and narrower than twice
\* the radius.
CornerImages == {<<100, 90, ThumbRadius>>, <<28, 100, ThumbRadius>>}

\* Every settings.json over the four keys.
SettingsFiles ==
    {MissingFile, GarbageFile}
        \cup {JsonFile(c, g, f, h) :
                 c \in {"absent", "true", "false", "text"},
                 g \in {"absent", "true", "false", "text"},
                 f \in {"absent", "true", "false", "text"},
                 h \in {"absent", "true", "false", "text"}}

\* A Roms directory holding one directory of the given name, with a game
\* in it, and the marker file or not.
OneDirTree(name, marker) ==
    [p \in {<<name>>, <<name, <<"game", ".md">>>>}
            \cup (IF marker THEN {<<name, shortcutMarkerFile>>} ELSE {}) |->
        IF Len(p) = 1 THEN DirNode
        ELSE IF p[2] = shortcutMarkerFile THEN <<"a">> ELSE <<"rom">>]

CalcInputs ==
    {[fn |-> "loadSettings", file |-> f, done |-> FALSE, out |-> DefaultSettings] :
        f \in SettingsFiles}
    \cup
    {[fn |-> "thumbnailFit", srcW |-> src[1], srcH |-> src[2],
      maxW |-> box[1], maxH |-> box[2], done |-> FALSE, out |-> <<0, 0>>] :
        src \in ((0..MaxSide) \X (0..MaxSide)) \cup CardImages, box \in FitBoxes}
    \cup
    {[fn |-> "scaleToCover", srcW |-> src[1], srcH |-> src[2], brick |-> b,
      done |-> FALSE, out |-> [newW |-> 0, newH |-> 0, offX |-> 0, offY |-> 0]] :
        src \in ((1..MaxSide) \X (1..MaxSide)) \cup CardImages, b \in BOOLEAN}
    \cup
    {[fn |-> "roundedCorners", w |-> i[1], h |-> i[2], radius |-> i[3],
      done |-> FALSE, out |-> {}] :
        i \in ((0..MaxSide) \X (0..MaxSide) \X SmallRadii) \cup CornerImages}
    \cup
    {[fn |-> "artPlacement", srcW |-> src[1], srcH |-> src[2], brick |-> b,
      done |-> FALSE, out |-> [minX |-> 0, minY |-> 0, maxX |-> 0, maxY |-> 0]] :
        src \in ((1..MaxSide) \X (1..MaxSide)) \cup CardImages, b \in BOOLEAN}
    \cup
    {[fn |-> "scan", name |-> n, marker |-> m, done |-> FALSE,
      out |-> [consoles |-> {}, shortcuts |-> {}]] :
        n \in UNION {[1..l -> {"a", " ", "(", ")", "0", BOM}] : l \in 1..MaxLen},
        m \in BOOLEAN}

InitCalc ==
    /\ calc \in CalcInputs
    /\ fs = IF calc.fn = "scan" THEN OneDirTree(calc.name, calc.marker) ELSE InitTree
    /\ settingsFile = MissingFile
    /\ settings = loadSettings(settingsFile)
    /\ isBrick = FALSE
    /\ made = {}
    /\ last = NoOp
    /\ ui = "none"
    /\ nops = 0
    /\ codec = NoCodec

\* loadSettings on the drawn file.
LoadSettings ==
    /\ calc.fn = "loadSettings" /\ ~calc.done
    /\ calc' = [calc EXCEPT !.done = TRUE, !.out = loadSettings(calc.file)]
    /\ UNCHANGED <<fs, settingsFile, settings, isBrick, made, last, ui, nops, codec>>

\* thumbnailFit on the drawn sizes.
ThumbnailFit ==
    /\ calc.fn = "thumbnailFit" /\ ~calc.done
    /\ calc' = [calc EXCEPT !.done = TRUE,
                             !.out = thumbnailFit(calc.srcW, calc.srcH,
                                                  calc.maxW, calc.maxH)]
    /\ UNCHANGED <<fs, settingsFile, settings, isBrick, made, last, ui, nops, codec>>

\* The wallpaper layer of generateArtworkBg on the drawn wallpaper and device.
ScaleToCover ==
    /\ calc.fn = "scaleToCover" /\ ~calc.done
    /\ calc' = [calc EXCEPT !.done = TRUE,
                             !.out = scaleToCover(calc.srcW, calc.srcH,
                                                  screenDimensions(calc.brick)[1],
                                                  screenDimensions(calc.brick)[2])]
    /\ UNCHANGED <<fs, settingsFile, settings, isBrick, made, last, ui, nops, codec>>

\* applyRoundedCorners on an image of the drawn size.
ApplyRoundedCorners ==
    /\ calc.fn = "roundedCorners" /\ ~calc.done
    /\ calc' = [calc EXCEPT !.done = TRUE,
                             !.out = applyRoundedCorners(calc.w, calc.h, calc.radius)]
    /\ UNCHANGED <<fs, settingsFile, settings, isBrick, made, last, ui, nops, codec>>

\* The art layer of generateArtworkBg: the art of the drawn size is fitted
\* in the box of the device's screen and placed on the canvas.
ArtPlacement ==
    /\ calc.fn = "artPlacement" /\ ~calc.done
    /\ LET screen == screenDimensions(calc.brick)
           box == artBox(screen[1], screen[2])
           art == thumbnailFit(calc.srcW, calc.srcH, box[1], box[2])
       IN  calc' = [calc EXCEPT !.done = TRUE,
                                !.out = artPlacement(screen[1], screen[2],
                                                     art[1], art[2])]
    /\ UNCHANGED <<fs, settingsFile, settings, isBrick, made, last, ui, nops, codec>>

\* The two scans of the Roms directory.
ScanCard ==
    /\ calc.fn = "scan" /\ ~calc.done
    /\ calc' = [calc EXCEPT
                    !.done = TRUE,
                    !.out = [consoles |-> scanConsoleDirs(fs, settings.ShowHidden),
                             shortcuts |-> scanShortcuts(fs)]]
    /\ UNCHANGED <<fs, settingsFile, settings, isBrick, made, last, ui, nops, codec>>

NextCalc ==
    \/ LoadSettings \/ ThumbnailFit \/ ScaleToCover \/ ScanCard
    \/ ApplyRoundedCorners \/ ArtPlacement

SpecCalc == InitCalc /\ [][NextCalc]_vars

\* ------------------------------------------------- the codec on its own

CodecChars == {"a", " ", "(", ")", "0", BOM}

CodecDisplays == UNION {[1..n -> CodecChars] : n \in 1..MaxLen}

CodecTags == {<<"MD">>, bridgeEmuTag}

InitCodec ==
    /\ fs = InitTree
    /\ settingsFile = MissingFile
    /\ settings = loadSettings(settingsFile)
    /\ isBrick = FALSE
    /\ calc = NoCalc
    /\ made = {}
    /\ last = NoOp
    /\ ui = "none"
    /\ nops = 0
    /\ codec \in {[phase |-> "in", pos |-> p, display |-> d, tag |-> t,
                   name |-> <<>>, out |-> NoCodec.out] :
                      p \in Positions, d \in CodecDisplays, t \in CodecTags}

\* buildFolderName applied to the drawn triple.
Encode ==
    /\ codec.phase = "in"
    /\ codec' = [codec EXCEPT
                    !.phase = "encoded",
                    !.name = buildFolderName(codec.pos, codec.display, codec.tag)]
    /\ UNCHANGED <<fs, settingsFile, settings, isBrick, made, last, ui, nops, calc>>

\* The position whose prefix the name carries.
recognisedPosition(name) ==
    IF HasPrefix(name, shortcutPrefix) THEN ShortcutPositionBottom
    ELSE IF HasPrefix(name, topPrefix) THEN ShortcutPositionTop
    ELSE ShortcutPositionAlpha

\* The folder name read back: tag, display name and position.
Decode ==
    /\ codec.phase = "encoded"
    /\ codec' = [codec EXCEPT
                    !.phase = "decoded",
                    !.out = [display |-> displayFromFolderName(codec.name),
                             tag |-> extractTag(codec.name),
                             pos |-> recognisedPosition(codec.name)]]
    /\ UNCHANGED <<fs, settingsFile, settings, isBrick, made, last, ui, nops, calc>>

NextCodec == Encode \/ Decode

SpecCodec == InitCodec /\ [][NextCodec]_vars


\* =============================================================== claims

\* The folder of the last creation call.
LastFolder == buildFolderName(last.pos, last.display, last.tag)

LastWasCreate == last.op \in {"createROM", "createTool"}

\* C1: decoding the folder name that buildFolderName produced for
\* (position, display, tag) yields exactly (display, tag, position).
C1_RoundTrip ==
    codec.phase = "decoded" =>
        codec.out = [display |-> codec.display, tag |-> codec.tag,
                     pos |-> codec.pos]

\* C2: buildFolderName is injective: no other triple (position, display, tag)
\* produces the folder name of the drawn triple.
C2_Injective ==
    codec.phase = "encoded" =>
        \A p \in Positions : \A d \in CodecDisplays : \A t \in CodecTags :
            buildFolderName(p, d, t) = codec.name =>
                (p = codec.pos /\ d = codec.display /\ t = codec.tag)

\* C3: isShortcutFolder is true for the folder of every shortcut a creation
\* call reported created, under each position, and false for the ordinary
\* category directory.
C3_ShortcutsRecognised ==
    /\ \A m \in made : isShortcutFolder(fs, <<m.folder>>)
    /\ ~isShortcutFolder(fs, <<SegaDir>>)

\* The shortcut folders earlier releases left on the card, with the display
\* name and tag each stands for.
LegacyFolders ==
    {[name |-> StarOld, display |-> <<"Old">>, tag |-> <<"MD">>],
     [name |-> ZwsOld, display |-> <<"Zws">>, tag |-> <<"MD">>],
     [name |-> ZwsNew, display |-> <<"New">>, tag |-> <<"MD">>]}

\* C4: every folder written by an earlier codec generation (star glyph and
\* space, U+200B, U+FEFF) that is still on the card is listed by
\* scanShortcuts with its tag and a display name free of marker and glyph,
\* with or without a marker file.
C4_LegacyListed ==
    \A g \in LegacyFolders :
        Exists(fs, <<g.name>>) =>
            \E sc \in scanShortcuts(fs) :
                /\ sc.Name = g.name
                /\ sc.Tag = g.tag
                /\ sc.Display = g.display

\* C5: once a creation call has returned nil for (display, tag), under any
\* position, shortcutExists(display, tag) is true, and stays true until the
\* folder is removed.
C5_ExistsAfterCreate ==
    \A m \in made : shortcutExists(fs, m.display, m.tag)

\* C5 witness: a shortcut created under the Alphabetical position is still
\* found after a later operation.
C5_Witness ==
    /\ nops = 2
    /\ \E m \in made :
          /\ m.folder = buildFolderName(ShortcutPositionAlpha, m.display, m.tag)
          /\ LastFolder # m.folder
          /\ shortcutExists(fs, m.display, m.tag)

\* The (display, tag) pairs the add flows can be run for, and those created.
Identities ==
    {<<m.display, m.tag>> : m \in made}
        \cup {<<t.Display, bridgeEmuTag>> : t \in scanTools(settings.ShowHidden)}
        \cup UNION {{<<r.Display, c.Tag>> :
                        r \in scanROMs(fs, c.Path, settings.ShowHidden)} :
                            c \in scanConsoleDirs(fs, settings.ShowHidden)}

\* No (display, tag) has folders under two positions.
NoPositionDuplicates ==
    \A id \in Identities :
        Cardinality({pos \in Positions :
                        Exists(fs, <<buildFolderName(pos, id[1], id[2])>>)}) <= 1

\* An add flow run for a (display, tag) that exists under some position shows
\* "already exists" and leaves every file as it was.
RejectedAddChangesNothing ==
    (/\ nops' # nops
     /\ last'.op \in {"addROM", "addTool", "createROM", "createTool"}
     /\ last'.display # <<>>
     /\ shortcutExists(fs, last'.display, last'.tag))
        => (ui' = "exists" /\ fs' = fs)

ExpectedPointer ==
    CASE last.kind = "multi" ->
            <<"..", "/">> \o last.console \o <<"/">> \o last.entry
                \o <<"/">> \o last.entry \o <<".m3u">>
      [] last.kind = "cue" ->
            <<"..", "/">> \o last.console \o <<"/">> \o last.entry
                \o <<"/">> \o last.entry \o <<".cue">>
      [] OTHER -> <<"..", "/">> \o last.console \o <<"/">> \o last.entry

\* C7: after createROMShortcut returned nil the shortcut folder holds the
\* pointer file <folder name>.m3u with the relative path of its kind of game,
\* and the .shortcut marker file holding the clean display name.
C7_RomFiles ==
    (last.op = "createROM" /\ last.err = "") =>
        /\ ReadFile(fs, <<LastFolder, LastFolder \o <<".m3u">>>>) = ExpectedPointer
        /\ ReadFile(fs, <<LastFolder, shortcutMarkerFile>>) = last.display

\* C8: after createToolShortcut returned nil the folder holds the target file
\* with the package path, the pointer file holding "target" and the marker;
\* its tag is SHORTCUT and scanShortcuts reports it as a tool shortcut whose
\* target is the content of the target file.
C8_ToolFiles ==
    (last.op = "createTool" /\ last.err = "") =>
        /\ ReadFile(fs, <<LastFolder, <<"target">>>>) = last.entry
        /\ ReadFile(fs, <<LastFolder, LastFolder \o <<".m3u">>>>) = <<"target">>
        /\ ReadFile(fs, <<LastFolder, shortcutMarkerFile>>) = last.display
        /\ extractTag(LastFolder) = bridgeEmuTag
        /\ \E sc \in scanShortcuts(fs) :
              /\ sc.Name = LastFolder
              /\ sc.IsTool
              /\ sc.TargetPath = ReadFile(fs, <<LastFolder, <<"target">>>>)

\* C9: a creation call in which creating the directory or writing the pointer
\* file, the target file or the marker file failed returns a non-nil error.
C9_ErrorsPropagate ==
    (LastWasCreate /\ last.fault \in {"mkdir", "m3u", "target", "marker"}) =>
        last.err # ""

\* The last creation call made again on tree, with the given failing step.
LastCallOn(tree, fault) ==
    IF last.op = "createTool"
    THEN createToolShortcut(tree, last.display, last.entry, last.pos,
                            settings, fault)
    ELSE createROMShortcut(tree, last.display, last.tag, last.console,
                           [Name |-> last.entry,
                            IsMultiDisc |-> last.kind = "multi",
                            IsCueFolder |-> last.kind = "cue"],
                           last.pos, settings, fault)

\* C10: making a creation call again with the same arguments, also after a
\* call that failed part-way, succeeds and leaves exactly the files and
\* contents of a single successful call.
C10_Idempotent ==
    LastWasCreate =>
        /\ LET once == LastCallOn(fs, "none").tree
           IN  \A fault \in Faults(settings.CopyArtwork, last.op = "createTool") :
                  LET again == LastCallOn(LastCallOn(fs, fault).tree, "none")
                  IN  /\ again.err = ""
                      /\ again.tree = once
        /\ (last.again /\ last.fault = "none") =>
              /\ last.err = ""
              /\ LastCallOn(fs, "none").tree = fs

\* C10 witness: a creation that failed part-way was made again with the same
\* arguments and returned nil.
C10_Witness ==
    /\ last.again
    /\ last.fault = "none"
    /\ last.err = ""
    /\ Exists(fs, <<LastFolder, shortcutMarkerFile>>)

TextInLastParens(name) ==
    LET opens == {i \in 1..Len(name) : name[i] = "("}
        closes == {i \in 1..Len(name) : name[i] = ")"}
        lastOpen == CHOOSE i \in opens : \A j \in opens : j <= i
        lastClose == CHOOSE i \in closes : \A j \in closes : j <= i
    IN  IF opens = {} \/ closes = {} THEN <<>>
        ELSE IF lastClose < lastOpen THEN <<>>
        ELSE TrimSpace(SubSeq(name, lastOpen + 1, lastClose - 1))

\* C12: the tag of a name is the text between its last "(" and its last ")",
\* and a directory whose name yields no tag is in neither the category
\* listing nor the shortcut listing.
C12_TaglessExcluded ==
    (calc.fn = "scan" /\ calc.done) =>
        /\ \A e \in calc.out.consoles \cup calc.out.shortcuts :
              e.Tag = TextInLastParens(TrimSuffix(e.Name, <<DotDisabled>>))
        /\ TextInLastParens(calc.name) = <<>> =>
              /\ \A c \in calc.out.consoles : c.Name # calc.name
              /\ \A sc \in calc.out.shortcuts : sc.Name # calc.name

\* C13: a creation cut short between the pointer write and the marker write
\* leaves, under every position, a folder with the pointer and without the
\* marker that the scan lists as a shortcut, and that making the creation
\* again completes.
C13_InterruptedDetectable ==
    (LastWasCreate /\ last.fault = "interrupt") =>
        /\ Exists(fs, <<LastFolder, LastFolder \o <<".m3u">>>>)
        /\ ~Exists(fs, <<LastFolder, shortcutMarkerFile>>)
        /\ isShortcutFolder(fs, <<LastFolder>>)
        /\ \E sc \in scanShortcuts(fs) : sc.Name = LastFolder
        /\ LastCallOn(fs, "none").err = ""
        /\ Exists(LastCallOn(fs, "none").tree, <<LastFolder, shortcutMarkerFile>>)

\* C14: whatever step of the artwork generation fails, and whether or not
\* the preferences could be loaded, the creation call returns nil with the
\* pointer file and the marker file written.
C14_ArtworkNeverBlocks ==
    (LastWasCreate /\ last.fault \in ArtFaults \cup {"none"}) =>
        /\ last.err = ""
        /\ ReadFile(fs, <<LastFolder, LastFolder \o <<".m3u">>>>) =
              (IF last.op = "createTool" THEN <<"target">> ELSE ExpectedPointer)
        /\ ReadFile(fs, <<LastFolder, shortcutMarkerFile>>) = last.display
        /\ \E m \in made : m.folder = LastFolder

\* C14 witness: a game's shortcut was created although .media could not be
\* created under it.
C14_Witness ==
    /\ last.op = "createROM"
    /\ last.fault = "mkdirMedia"
    /\ last.err = ""
    /\ Exists(fs, <<LastFolder, LastFolder \o <<".m3u">>>>)
    /\ ~Exists(fs, <<LastFolder, <<".media">>>>)

ArtMissing(tree, src) ==
    \/ src = NoArtSrc
    \/ ~Exists(IF src.root = "tools" THEN ToolsTree ELSE tree, src.path)

\* bg.png of a folder, as the tree holds it.
BgOf(tree, folder) == ReadFile(tree, folder \o <<<<".media">>, <<"bg", ".png">>>>)

\* A canvas-sized image of the base layer alone.
PlainBase(fault) ==
    <<"png">>
        \o (IF isBrick THEN <<"1024", "x", "768">> ELSE <<"1280", "x", "720">>)
        \o <<IF settings.UseGlobalBg /\ fault # "noWallpaper"
             THEN "wallpaper" ELSE "black",
             "noart">>

\* What an artwork generation for a shortcut without source art must leave.
MissingArtOutcome(folder, fault) ==
    IF settings.ForceBlackBg
    THEN BgOf(fs', folder) = PlainBase(fault)
    ELSE BgOf(fs', folder) = BgOf(fs, folder)

C18_ArtSourceRecovered ==
    \A m \in made : \A sc \in scanShortcuts(fs) :
        sc.Name = m.folder =>
            /\ shortcutArtSrcPath(fs, sc) =
                  (IF m.kind = "tool"
                   THEN [root |-> "tools",
                         path |-> <<<<".media">>, m.display \o <<".png">>>>]
                   ELSE [root |-> "roms",
                         path |-> <<m.console, <<".media">>, m.display \o <<".png">>>>])
            /\ shortcutArtSrcPath(fs, sc) =
                  (IF m.kind = "tool" THEN toolArtworkSrc(m.display)
                   ELSE romArtworkSrc(m.console, m.display))

\* C18 witness: a multi-disc game's shortcut and a tool's shortcut were
\* created and are both scanned.
C18_Witness ==
    /\ \E m \in made : \E sc \in scanShortcuts(fs) :
          sc.Name = m.folder /\ m.kind = "multi"
    /\ \E m \in made : \E sc \in scanShortcuts(fs) :
          sc.Name = m.folder /\ m.kind = "tool"

\* C19: for art wider than maxW and higher than maxH, thumbnailFit returns
\* a width of at most maxW and a height of at most maxH, one of them equal
\* to its bound, the other the floor of the exactly proportional value.
C19_FitWithin ==
    (/\ calc.fn = "thumbnailFit"
     /\ calc.done
     /\ calc.srcW > calc.maxW
     /\ calc.srcH > calc.maxH) =>
        LET newW == calc.out[1]
            newH == calc.out[2]
        IN  /\ newW <= calc.maxW
            /\ newH <= calc.maxH
            /\ \/ /\ newW = calc.maxW
                  /\ newH * calc.srcW <= calc.srcH * calc.maxW
                  /\ calc.srcH * calc.maxW < (newH + 1) * calc.srcW
               \/ /\ newH = calc.maxH
                  /\ newW * calc.srcH <= calc.srcW * calc.maxH
                  /\ calc.srcW * calc.maxH < (newW + 1) * calc.srcH

\* C19 witness: 600x900 art was fitted in the 576x432 box as 288x432.
C19_Witness ==
    /\ calc.fn = "thumbnailFit"
    /\ calc.done
    /\ <<calc.srcW, calc.srcH>> = <<600, 900>>
    /\ <<calc.maxW, calc.maxH>> = <<576, 432>>
    /\ calc.out = <<288, 432>>

\* C20: for every wallpaper size the scaled wallpaper is at least as wide and
\* as high as the canvas, the crop offsets are not negative, and the window
\* of the canvas's size at the offsets lies inside the scaled wallpaper, so
\* that no canvas pixel is left unfilled.
C20_CoverFillsCanvas ==
    (calc.fn = "scaleToCover" /\ calc.done) =>
        LET screenW == IF calc.brick THEN 1024 ELSE 1280
            screenH == IF calc.brick THEN 768 ELSE 720
        IN  /\ calc.out.newW >= screenW
            /\ calc.out.newH >= screenH
            /\ calc.out.offX >= 0
            /\ calc.out.offY >= 0
            /\ calc.out.offX + screenW <= calc.out.newW
            /\ calc.out.offY + screenH <= calc.out.newH

PastNearestEdge(c, size, radius) ==
    LET toEdge == IF c < size - 1 - c THEN c ELSE size - 1 - c
    IN  IF toEdge < radius THEN radius - toEdge ELSE 0

\* C22: for every image size and every pixel, the pixel is zeroed exactly
\* when the squares of its distances past the nearest edge of each axis sum
\* to more than the radius squared, and the mask is the same mirrored
\* left-right and top-bottom.
C22_MaskRule ==
    (calc.fn = "roundedCorners" /\ calc.done /\ calc.radius > 0) =>
        \A x \in 0..(calc.w - 1) : \A y \in 0..(calc.h - 1) :
            LET dx == PastNearestEdge(x, calc.w, calc.radius)
                dy == PastNearestEdge(y, calc.h, calc.radius)
            IN  /\ <<x, y>> \in calc.out
                      <=> dx * dx + dy * dy > calc.radius * calc.radius
                /\ <<x, y>> \in calc.out <=> <<calc.w - 1 - x, y>> \in calc.out
                /\ <<x, y>> \in calc.out <=> <<x, calc.h - 1 - y>> \in calc.out

\* C23: on both canvases and for every art size, the art's rectangle ends 30
\* pixels from the canvas's right edge, starts right of column 0, is as far
\* from the top as from the bottom (within a pixel), and lies inside the
\* canvas.
C23_ArtPlacement ==
    (calc.fn = "artPlacement" /\ calc.done) =>
        LET screenW == IF calc.brick THEN 1024 ELSE 1280
            screenH == IF calc.brick THEN 768 ELSE 720
            r == calc.out
            above == r.minY
            below == screenH - r.maxY
        IN  /\ r.maxX = screenW - 30
            /\ r.minX > 0
            /\ r.minX <= r.maxX
            /\ r.minY >= 0 /\ r.minY <= r.maxY /\ r.maxY <= screenH
            /\ above - below \in {-1, 0, 1}

\* C23 witness: 600x900 art, fitted as 288x432, was placed on the 1280x720
\* canvas from column 962 to column 1250 and from row 144 to row 576.
C23_Witness ==
    /\ calc.fn = "artPlacement"
    /\ calc.done
    /\ ~calc.brick
    /\ <<calc.srcW, calc.srcH>> = <<600, 900>>
    /\ calc.out = [minX |-> 962, minY |-> 144, maxX |-> 1250, maxY |-> 576]

\* C24: when createROMShortcut or createToolShortcut returns an error, the
\* flow shows an error and not "Shortcut created!".
C24_FailuresSurfaced ==
    (LastWasCreate /\ last.err \notin {"", "interrupted"}) =>
        (ui = "error" /\ ui # "created")

C26_ExistsMeansShortcut ==
    ui = "exists" =>
        \E pos \in Positions :
            LET folder == <<buildFolderName(pos, last.display, last.tag)>>
            IN  Exists(fs, folder) /\ isShortcutFolder(fs, folder)

\* C27: after a game's shortcut was created, its pointer file names, from
\* the shortcut folder, a file that exists.
C27_PointerNamesFile ==
    (last.op = "createROM" /\ last.err = "") =>
        LET data == ReadFile(fs, <<LastFolder, LastFolder \o <<".m3u">>>>)
            target == CleanNames(<<LastFolder>>, SplitPath(TrimSpace(data)))
        IN  /\ data # NoData
            /\ Exists(fs, target)
            /\ ~IsDir(fs, target)

\* C28: for a source and a box of strictly positive sizes thumbnailFit
\* returns a strictly positive width and a strictly positive height.
C28_FitPositive ==
    (/\ calc.fn = "thumbnailFit"
     /\ calc.done
     /\ calc.srcW > 0 /\ calc.srcH > 0
     /\ calc.maxW > 0 /\ calc.maxH > 0) =>
        (calc.out[1] > 0 /\ calc.out[2] > 0)

\* C29: in either show-hidden setting no directory is returned by both
\* scanConsoleDirs and scanShortcuts, and no folder that a creation call
\* reported created is returned by scanConsoleDirs.
C29_ScansDisjoint ==
    \A showHidden \in BOOLEAN :
        /\ \A c \in scanConsoleDirs(fs, showHidden) :
              \A sc \in scanShortcuts(fs) : c.Name # sc.Name
        /\ \A m \in made :
              \A c \in scanConsoleDirs(fs, showHidden) : c.Name # m.folder

\* A bg.png of the canvas's size; the images the card came with are taken
\* to be of that size.
CanvasSized(image) ==
    /\ image # NoData
    /\ \/ image \in {<<"png", "old">>, <<"png", "mine">>}
       \/ SubSeq(image, 2, 4) =
             (IF isBrick THEN <<"1024", "x", "768">> ELSE <<"1280", "x", "720">>)

\* C30: with ForceBlackBg set, and .media and bg.png creatable, after
\* regenerateAllMedia every scanned shortcut holds a canvas-sized
\* .media/bg.png, whether its source art is present, missing or not
\* decodable, and whether or not its pointer file can be read.
C30_AlwaysEmit ==
    (/\ last.op = "regenerateAllMedia"
     /\ settings.ForceBlackBg
     /\ last.fault \notin {"mkdirMedia", "createBg"}) =>
        \A sc \in scanShortcuts(fs) : CanvasSized(BgOf(fs, sc.Path))

=============================================================================
